---- MODULE Spec2Model ----
(***************************************************************************)
(* The Red Panda Lineage dataset builder (build.py): RedPandaGraph, its    *)
(* two import phases, the post-import dataset checks and the JSON export.  *)
(*                                                                         *)
(* A data file is the ordered list of (key, value) pairs of its section,   *)
(* as configparser's items() yields them.  Values are strings; the value   *)
(* of a children field is kept as the sequence of its lexemes (words,      *)
(* "," and " ") so that replace() and split() are computed.  A Python      *)
(* dict is a function from its keys to its values.  A raised exception is  *)
(* a record naming its class and the arguments of its message.             *)
(***************************************************************************)
EXTENDS Integers, Sequences, FiniteSets, TLC

VARIABLES
    edges,        \* self.edges
    vertices,     \* self.vertices
    zoos,         \* self.zoos
    panda_files,  \* self.panda_files
    zoo_files,    \* self.zoo_files
    pc,           \* position of __main__ / build_graph
    err,          \* the exception that ended the build, NoError if none
    export        \* the JSON document written to OUTPUT_PATH, NoFile if none

vars == <<edges, vertices, zoos, panda_files, zoo_files, pc, err, export>>

(***************************************************************************)
(* Bounds of the model.                                                    *)
(***************************************************************************)
MaxZoos == 2
MaxPandas == 2

(***************************************************************************)
(* Strings and numbers.                                                    *)
(***************************************************************************)
MaxNameLen == 80

RECURSIVE Rep(_)
Rep(n) == IF n = 0 THEN "" ELSE "a" \o Rep(n - 1)

NameAtLimit == Rep(MaxNameLen)
NameTooLong == Rep(MaxNameLen + 1)

IdNumerals == {"1", "2", "999"}

IntTable == [s \in IdNumerals |-> CHOOSE n \in 0..999 : ToString(n) = s]

int(s) == IntTable[s]

str(n) == ToString(n)

\* s.find(sub): the index of the first occurrence of sub in s, -1 if none.
FindTable ==
    { <<"en.name", "name", 3>>,
      <<"gender", "gender", 0>>,
      <<"gender.name", "gender", 0>>, <<"gender.name", "name", 7>>,
      <<"birthplace", "birthplace", 0>>,
      <<"zoo", "zoo", 0>>,
      <<"children", "children", 0>> }

find(s, sub) ==
    IF \E t \in FindTable : t[1] = s /\ t[2] = sub
    THEN (CHOOSE t \in FindTable : t[1] = s /\ t[2] = sub)[3]
    ELSE -1

\* text.replace(" ", "") on a sequence of lexemes.
NotSpace(c) == c # " "

replace_spaces(text) == SelectSeq(text, NotSpace)

\* text.split(","): the tokens between the commas; "" splits to [""].
RECURSIVE split(_, _, _)
split(text, i, token) ==
    IF i > Len(text) THEN <<token>>
    ELSE IF text[i] = "," THEN <<token>> \o split(text, i + 1, "")
    ELSE split(text, i + 1, token \o text[i])

InSeq(x, s) == \E i \in 1..Len(s) : s[i] = x

\* list.remove(x): drops the first occurrence of x.
remove(s, x) ==
    LET i == CHOOSE k \in 1..Len(s) : s[k] = x /\ \A j \in 1..(k - 1) : s[j] # x
    IN SubSeq(s, 1, i - 1) \o SubSeq(s, i + 1, Len(s))

(***************************************************************************)
(* Exceptions.                                                             *)
(***************************************************************************)
NoError == [kind |-> "none", msg |-> ""]

NoFile == [written |-> FALSE]

GenderFormatError(sourcepath, gender) ==
    [kind |-> "GenderFormatError", msg |-> "unsupported gender",
     path |-> sourcepath, value |-> gender]

NameFormatError(sourcepath, field, name) ==
    [kind |-> "NameFormatError", msg |-> "name too long",
     path |-> sourcepath, field |-> field, value |-> name]

ZooIdError(sourcepath, zoo_id) ==
    [kind |-> "IdError", msg |-> "zoo id doesn't exist",
     path |-> sourcepath, value |-> zoo_id]

ChildrenIdError(path, children) ==
    [kind |-> "IdError", msg |-> "invalid children list",
     path |-> path, value |-> children]

\* [...][0] on an empty list.
IndexError(path) ==
    [kind |-> "IndexError", msg |-> "list index out of range", path |-> path]

\* infile.get(section, option) without that option.
NoOptionError(path, option) ==
    [kind |-> "NoOptionError", msg |-> "no option", path |-> path,
     value |-> option]

\* a['_id'] with a an (index, dict) tuple of enumerate(dataset).
TupleIndexError ==
    [kind |-> "TypeError", msg |-> "tuple indices must be integers or slices"]

(***************************************************************************)
(* Field validators.                                                       *)
(***************************************************************************)
MaleInputs == {"m", "M", "male", "Male", "オス"}
FemaleInputs == {"f", "F", "female", "Female", "メス"}

\* Mutant: the else branch returns the input instead of raising.
check_imported_gender_passthrough(gender, sourcepath) ==
    IF gender \in MaleInputs THEN [err |-> NoError, value |-> "Male"]
    ELSE IF gender \in FemaleInputs THEN [err |-> NoError, value |-> "Female"]
    ELSE [err |-> NoError, value |-> gender]

\* Returns [err, value]: the exception raised, or the canonical string.
check_imported_gender(gender, sourcepath) ==
    IF gender \in MaleInputs THEN [err |-> NoError, value |-> "Male"]
    ELSE IF gender \in FemaleInputs THEN [err |-> NoError, value |-> "Female"]
    ELSE [err |-> GenderFormatError(sourcepath, gender), value |-> gender]

\* Returns the exception raised, NoError if none.
check_imported_name(name, field, sourcepath) ==
    IF Len(name) > MaxNameLen
    THEN NameFormatError(sourcepath, field, name)
    ELSE NoError

zoo_ids(zs) == {zs[i]["_id"] : i \in 1..Len(zs)}

\* Mutant: the membership test is dropped.
check_imported_zoo_id_skipped(zs, zoo_id, sourcepath) == NoError

\* Returns the exception raised, NoError if none.
check_imported_zoo_id(zs, zoo_id, sourcepath) ==
    LET check_id == str(int(zoo_id) * (-1))
    IN IF check_id \notin zoo_ids(zs)
       THEN ZooIdError(sourcepath, zoo_id)
       ELSE NoError

(***************************************************************************)
(* Dataset validators.                                                     *)
(***************************************************************************)
ids(dataset) == [n \in 1..Len(dataset) |-> dataset[n]["_id"]]

IsDupe(dataset, n) == \E m \in 1..(n - 1) : ids(dataset)[m] = ids(dataset)[n]

dupe_ids(dataset) == {n \in 1..Len(dataset) : IsDupe(dataset, n)}

\* With a duplicate, building dupe_names indexes a tuple by a string: the
\* TypeError leaves the method before the IdError is constructed.
check_dataset_duplicate_ids(dataset) ==
    IF Cardinality(dupe_ids(dataset)) > 0
    THEN TupleIndexError
    ELSE NoError

check_dataset_children_ids == NoError

check_dataset_dates == NoError

verify_zoos(zs) == check_dataset_duplicate_ids(zs)

verify_pandas(vs) ==
    IF check_dataset_duplicate_ids(vs).kind # "none"
    THEN check_dataset_duplicate_ids(vs)
    ELSE IF check_dataset_children_ids.kind # "none"
    THEN check_dataset_children_ids
    ELSE check_dataset_dates

(***************************************************************************)
(* import_zoo.                                                             *)
(***************************************************************************)
zoo_field(zoo_entry, field) ==
    LET key == field[1]
        value == IF key = "_id" THEN str(int(field[2]) * (-1)) ELSE field[2]
    IN (key :> value) @@ zoo_entry

RECURSIVE zoo_items(_, _, _)
zoo_items(zoo_entry, infile, i) ==
    IF i > Len(infile) THEN zoo_entry
    ELSE zoo_items(zoo_field(zoo_entry, infile[i]), infile, i + 1)

EmptyDict == [k \in {} |-> ""]

import_zoo_entry(infile) == zoo_items(EmptyDict, infile, 1)

(***************************************************************************)
(* import_redpanda.  The loop state is the vertex list of the store, the   *)
(* local panda_vertex and panda_edges, and the exception raised so far.    *)
(***************************************************************************)
Edge(out, in, label) == [_out |-> out, _in |-> in, _label |-> label]

get(infile, key) == infile[CHOOSE i \in 1..Len(infile) : infile[i][1] = key][2]

has_option(infile, key) == \E i \in 1..Len(infile) : infile[i][1] = key

name_field(st, field, path) ==
    LET e == check_imported_name(field[2], field[1], path)
    IN IF e.kind # "none" THEN [st EXCEPT !.err = e]
       ELSE [st EXCEPT !.panda_vertex = (field[1] :> field[2]) @@ @]

gender_field(st, field, path) ==
    LET g == check_imported_gender(field[2], path)
    IN IF g.err.kind # "none" THEN [st EXCEPT !.err = g.err]
       ELSE [st EXCEPT !.panda_vertex = (field[1] :> g.value) @@ @]

matching_zoos(zs, zoo_id) ==
    LET IsIt(a) == a["_id"] = zoo_id
    IN SelectSeq(zs, IsIt)

\* Mutant: the zoo is never added to the vertex list.
add_zoo_vertex_never(vs, zoo_vertex) == vs

add_zoo_vertex(vs, zoo_vertex) ==
    IF ~InSeq(zoo_vertex, vs) THEN Append(vs, zoo_vertex) ELSE vs

zoo_edge(st, matches, panda_id, zoo_id, label, path) ==
    IF Len(matches) = 0 THEN [st EXCEPT !.err = IndexError(path)]
    ELSE [st EXCEPT
            !.vertices = add_zoo_vertex(@, matches[1]),
            !.panda_edges = Append(@, Edge(panda_id, zoo_id, label))]

zoo_ref_field(st, field, panda_id, path, zs) ==
    IF check_imported_zoo_id(zs, field[2], path).kind # "none"
    THEN [st EXCEPT !.err = check_imported_zoo_id(zs, field[2], path)]
    ELSE zoo_edge(st, matching_zoos(zs, str(int(field[2]) * (-1))),
                  panda_id, str(int(field[2]) * (-1)), field[1], path)

RECURSIVE family_edges(_, _, _)
family_edges(panda_id, children, i) ==
    IF i > Len(children) THEN <<>>
    ELSE <<Edge(panda_id, children[i], "family")>>
         \o family_edges(panda_id, children, i + 1)

remove_if_in(s, x) == IF InSeq(x, s) THEN remove(s, x) ELSE s

\* Mutant: none/unknown are dropped from a longer list instead of rejected.
children_edges_lenient(st, children, panda_id, path) ==
    [st EXCEPT !.panda_edges = @ \o
       family_edges(panda_id,
                    remove_if_in(remove_if_in(children, "none"), "unknown"),
                    1)]

children_edges(st, children, panda_id, path) ==
    IF InSeq("none", children) \/ InSeq("unknown", children)
    THEN IF Len(children) > 1
         THEN [st EXCEPT !.err = ChildrenIdError(path, children)]
         ELSE [st EXCEPT !.panda_edges = @ \o
                 family_edges(panda_id,
                              remove_if_in(remove_if_in(children, "none"),
                                           "unknown"), 1)]
    ELSE [st EXCEPT !.panda_edges = @ \o family_edges(panda_id, children, 1)]

children_field(st, field, panda_id, path) ==
    children_edges(st, split(replace_spaces(field[2]), 1, ""), panda_id, path)

other_field(st, field) ==
    [st EXCEPT !.panda_vertex = (field[1] :> field[2]) @@ @]

panda_field(st, field, panda_id, path, zs) ==
    IF find(field[1], "name") # -1 THEN name_field(st, field, path)
    ELSE IF find(field[1], "gender") # -1 THEN gender_field(st, field, path)
    ELSE IF find(field[1], "birthplace") # -1 \/ find(field[1], "zoo") # -1
    THEN zoo_ref_field(st, field, panda_id, path, zs)
    ELSE IF find(field[1], "children") # -1
    THEN children_field(st, field, panda_id, path)
    ELSE other_field(st, field)

\* The for loop: an exception leaves it with the store as it is then.
RECURSIVE panda_items(_, _, _, _, _, _)
panda_items(st, infile, i, panda_id, path, zs) ==
    IF i > Len(infile) \/ st.err.kind # "none" THEN st
    ELSE panda_items(panda_field(st, infile[i], panda_id, path, zs),
                     infile, i + 1, panda_id, path, zs)

\* Lines 233-235, reached only when the loop raised nothing.
commit(loop, es, pfiles, path) ==
    IF loop.err.kind # "none"
    THEN [edges |-> es, vertices |-> loop.vertices,
          panda_files |-> pfiles, err |-> loop.err]
    ELSE [edges |-> es \o loop.panda_edges,
          vertices |-> Append(loop.vertices, loop.panda_vertex),
          panda_files |-> Append(pfiles, path), err |-> NoError]

LoopStart(vs) ==
    [vertices |-> vs, panda_vertex |-> EmptyDict,
     panda_edges |-> <<>>, err |-> NoError]

\* The store after import_redpanda(path) returns or raises.
import_redpanda(es, vs, zs, pfiles, infile, path) ==
    IF ~has_option(infile, "en.name")
    THEN [edges |-> es, vertices |-> vs, panda_files |-> pfiles,
          err |-> NoOptionError(path, "en.name")]
    ELSE IF ~has_option(infile, "_id")
    THEN [edges |-> es, vertices |-> vs, panda_files |-> pfiles,
          err |-> NoOptionError(path, "_id")]
    ELSE commit(panda_items(LoopStart(vs), infile, 1,
                            get(infile, "_id"), path, zs),
                es, pfiles, path)

(***************************************************************************)
(* export_json_graph.                                                      *)
(***************************************************************************)
export_json_graph(es, vs, zs) ==
    [written |-> TRUE,
     vertices |-> vs,
     edges |-> es,
     totals |-> [zoos |-> Len(zs), pandas |-> Len(vs) - Len(zs)]]

(***************************************************************************)
(* The data files.  A zoo file holds _id and one more field; a panda file  *)
(* holds _id first, then en.name and at most one more field in either      *)
(* order.  A family file holds _id, en.name, an optional birthday and a    *)
(* children list.                                                          *)
(***************************************************************************)
ZooIdValues == {"1", "2"}

ZooExtras == { <<"en.name", NameTooLong>>, <<"gender", "x">> }

ZooFiles == { <<<<"_id", z>>, x>> : z \in ZooIdValues, x \in ZooExtras }

PandaIdValues == {"1", "2"}

NameValues == {NameAtLimit, NameTooLong}

GenderValues == MaleInputs \cup FemaleInputs \cup {"x"}

ZooRefValues == {"1", "2", "999"}

ChildrenValues ==
    { <<"none">>, <<"unknown">>, <<"1">>, <<"2">>,
      <<"1", ",", " ", "2">>, <<"none", ",", "2">> }

DateValues == {"2000/1/1", "2010/1/1"}

PandaExtras ==
    { <<"gender", g>> : g \in GenderValues }
    \cup { <<"gender.name", "x">> }
    \cup { <<"birthplace", z>> : z \in ZooRefValues }
    \cup { <<"zoo", z>> : z \in ZooRefValues }
    \cup { <<"children", c>> : c \in ChildrenValues }

PandaFiles ==
    { <<<<"_id", p>>, <<"en.name", n>>>> :
        p \in PandaIdValues, n \in NameValues }
    \cup { <<<<"_id", p>>, <<"en.name", n>>, x>> :
             p \in PandaIdValues, n \in NameValues, x \in PandaExtras }
    \cup { <<<<"_id", p>>, x, <<"en.name", n>>>> :
             p \in PandaIdValues, n \in NameValues, x \in PandaExtras }

FamilyChildren == { <<"none">>, <<"1">>, <<"2">> }

FamilyFiles ==
    { <<<<"_id", p>>, <<"en.name", "Mochi">>, <<"children", c>>>> :
        p \in PandaIdValues, c \in FamilyChildren }
    \cup { <<<<"_id", p>>, <<"en.name", "Mochi">>,
              <<"birthday", d>>, <<"children", c>>>> :
             p \in PandaIdValues, d \in DateValues, c \in FamilyChildren }

\* The files of a tree are read in sorted order: a path is its rank.
ZooPath == Len(zoo_files) + 1
PandaPath == Len(panda_files) + 1

(***************************************************************************)
(* The build.                                                              *)
(***************************************************************************)
Init ==
    /\ edges = <<>>
    /\ vertices = <<>>
    /\ zoos = <<>>
    /\ panda_files = <<>>
    /\ zoo_files = <<>>
    /\ pc = "import_zoos"
    /\ err = NoError
    /\ export = NoFile

ImportZoo ==
    /\ pc = "import_zoos"
    /\ Len(zoo_files) < MaxZoos
    /\ \E infile \in ZooFiles :
          /\ zoos' = Append(zoos, import_zoo_entry(infile))
          /\ zoo_files' = Append(zoo_files, ZooPath)
    /\ UNCHANGED <<edges, vertices, panda_files, pc, err, export>>

VerifyZoos ==
    /\ pc = "import_zoos"
    /\ \E e \in {verify_zoos(zoos)} :
          /\ err' = e
          /\ pc' = IF e.kind # "none" THEN "error" ELSE "import_pandas"
    /\ UNCHANGED <<edges, vertices, zoos, panda_files, zoo_files, export>>

ImportFrom(files) ==
    /\ pc = "import_pandas"
    /\ Len(panda_files) < MaxPandas
    /\ \E infile \in files :
          \E r \in {import_redpanda(edges, vertices, zoos, panda_files,
                                    infile, PandaPath)} :
             /\ edges' = r.edges
             /\ vertices' = r.vertices
             /\ panda_files' = r.panda_files
             /\ err' = r.err
             /\ pc' = IF r.err.kind # "none" THEN "error" ELSE pc
    /\ UNCHANGED <<zoos, zoo_files, export>>

ImportRedpanda == ImportFrom(PandaFiles)

ImportFamily == ImportFrom(FamilyFiles)

VerifyPandas ==
    /\ pc = "import_pandas"
    /\ \E e \in {verify_pandas(vertices)} :
          /\ err' = e
          /\ pc' = IF e.kind # "none" THEN "error" ELSE "export"
    /\ UNCHANGED <<edges, vertices, zoos, panda_files, zoo_files, export>>

ExportJsonGraph ==
    /\ pc = "export"
    /\ export' = export_json_graph(edges, vertices, zoos)
    /\ pc' = "done"
    /\ UNCHANGED <<edges, vertices, zoos, panda_files, zoo_files, err>>

Next ==
    \/ ImportZoo
    \/ VerifyZoos
    \/ ImportRedpanda
    \/ VerifyPandas
    \/ ExportJsonGraph

Spec == Init /\ [][Next]_vars

\* A build over a tree of family files and no zoo file.
NextFamily ==
    \/ VerifyZoos
    \/ ImportFamily
    \/ VerifyPandas
    \/ ExportJsonGraph

SpecFamily == Init /\ [][NextFamily]_vars

(***************************************************************************)
(* Vocabulary of the properties.                                           *)
(***************************************************************************)
Range(s) == {s[i] : i \in 1..Len(s)}

IsZooId(id) == \E z \in IdNumerals : id = str(int(z) * (-1))

IsZooVertex(v) == IsZooId(v["_id"])

Canonical == {"Male", "Female"}

\* The field is handled by the birthplace/zoo branch of import_redpanda.
IsZooField(k) ==
    /\ find(k, "name") = -1
    /\ find(k, "gender") = -1
    /\ find(k, "birthplace") # -1 \/ find(k, "zoo") # -1

\* The field is handled by the gender branch of import_redpanda.
IsGenderField(k) == find(k, "name") = -1 /\ find(k, "gender") # -1

Negated(z) == str(int(z) * (-1))

Dangling(z) == Negated(z) \notin zoo_ids(zoos)

\* import_redpanda may be called on the store as it is now.
CanImport == pc = "import_pandas" /\ Len(panda_files) < MaxPandas

\* What importing infile into the store as it is now leaves behind.
Imported(infile) ==
    import_redpanda(edges, vertices, zoos, panda_files, infile, PandaPath)

\* No field before the i-th raises.
PrefixOK(infile, i) ==
    panda_items(LoopStart(vertices), SubSeq(infile, 1, i - 1), 1,
                get(infile, "_id"), PandaPath, zoos).err.kind = "none"

NewEdges(r) == SubSeq(r.edges, Len(edges) + 1, Len(r.edges))

IsFamily(e) == e._label = "family"

FamilyOf(es) == SelectSeq(es, IsFamily)

IsZooEdge(e) == IsZooField(e._label)

ZooEdgesOf(es) == SelectSeq(es, IsZooEdge)

Tokens(text) == split(replace_spaces(text), 1, "")

IsChildrenField(k) == k = "children"

\* The panda files with a birthplace/zoo, a gender, a children field.
ZooRefFiles ==
    {infile \in PandaFiles :
        \E i \in 1..Len(infile) : IsZooField(infile[i][1])}

GenderFiles ==
    {infile \in PandaFiles :
        \E i \in 1..Len(infile) : IsGenderField(infile[i][1])}

ChildrenFiles ==
    {infile \in PandaFiles :
        \E i \in 1..Len(infile) : IsChildrenField(infile[i][1])}

HasDupes(dataset) == \E m, n \in 1..Len(dataset) :
                        m # n /\ dataset[m]["_id"] = dataset[n]["_id"]

(***************************************************************************)
(* C1: after a build that completes, totals.zoos is the number of zoo      *)
(* vertices of the exported vertex list and totals.pandas the number of    *)
(* its other vertices.                                                     *)
(***************************************************************************)
C1_TotalsCountExportedVertices ==
    pc = "done" =>
        /\ export.totals.zoos =
              Cardinality({i \in 1..Len(export.vertices) :
                              IsZooVertex(export.vertices[i])})
        /\ export.totals.pandas =
              Cardinality({i \in 1..Len(export.vertices) :
                              ~IsZooVertex(export.vertices[i])})

(***************************************************************************)
(* C2: every edge of the store made for a birthplace/zoo field starts at   *)
(* an animal of the store, is labelled with the field name and ends at a   *)
(* zoo vertex held by both the zoo list and the vertex list; and an import *)
(* that succeeds adds, for such a field of value z, exactly the edge from  *)
(* the file's _id to the negation of z under the field's name.             *)
(***************************************************************************)
C2_StoredZooEdge(e) ==
    /\ \E v \in Range(vertices) : ~IsZooVertex(v) /\ v["_id"] = e._out
    /\ e._in \in zoo_ids(zoos)
    /\ \E v \in Range(vertices) : v["_id"] = e._in /\ v \in Range(zoos)

C2_ImportedZooEdges(infile, r) ==
    r.err.kind = "none" =>
        /\ \A i \in 1..Len(infile) : IsZooField(infile[i][1]) =>
              /\ Edge(get(infile, "_id"), Negated(infile[i][2]), infile[i][1])
                    \in Range(NewEdges(r))
              /\ \E v \in Range(r.vertices) :
                    v["_id"] = Negated(infile[i][2]) /\ v \in Range(zoos)
        /\ \A e \in Range(ZooEdgesOf(NewEdges(r))) :
              \E i \in 1..Len(infile) :
                 /\ IsZooField(infile[i][1])
                 /\ e = Edge(get(infile, "_id"), Negated(infile[i][2]),
                             infile[i][1])

C2_ZooEdgesResolve ==
    /\ \A e \in Range(ZooEdgesOf(edges)) : C2_StoredZooEdge(e)
    /\ CanImport =>
          \A infile \in ZooRefFiles : \A r \in {Imported(infile)} :
             C2_ImportedZooEdges(infile, r)

C2_Witness ==
    /\ Edge("2", "-1", "birthplace") \in Range(edges)
    /\ Edge("1", "-2", "zoo") \in Range(edges)

(***************************************************************************)
(* C3: importing a file with a birthplace/zoo field whose value names no   *)
(* imported zoo raises; when no earlier field of the file raises first,    *)
(* the exception is the IdError of that value.  A build that raised is in  *)
(* the error state and has written no export.                              *)
(***************************************************************************)
C3_ImportedDangling(infile, r) ==
    \A i \in 1..Len(infile) :
       IsZooField(infile[i][1]) /\ Dangling(infile[i][2]) =>
          /\ r.err.kind # "none"
          /\ PrefixOK(infile, i) => r.err = ZooIdError(PandaPath, infile[i][2])

C5_Expected(infile, t) ==
    [k \in 1..Len(t) |-> Edge(get(infile, "_id"), t[k], "family")]

C5_ImportedChildren(infile, i, t, r) ==
    IF t \in {<<"none">>, <<"unknown">>}
    THEN /\ r.err.msg # "invalid children list"
         /\ r.err.kind = "none" => FamilyOf(NewEdges(r)) = <<>>
    ELSE IF InSeq("none", t) \/ InSeq("unknown", t)
    THEN /\ r.err.kind # "none"
         /\ PrefixOK(infile, i) => r.err = ChildrenIdError(PandaPath, t)
         /\ r.err.msg = "invalid children list" => r.err.kind = "IdError"
    ELSE /\ r.err.msg # "invalid children list"
         /\ r.err.kind = "none" =>
               FamilyOf(NewEdges(r)) = C5_Expected(infile, t)

C6_EveryGenderFieldCanonical ==
    \A v \in Range(vertices) \cup Range(zoos) : \A k \in DOMAIN v :
       find(k, "gender") # -1 => v[k] \in Canonical

(***************************************************************************)
(* C6, amended: every field of an animal vertex whose name contains        *)
(* "gender" and not "name" holds "Male" or "Female"; a successful import   *)
(* stores "Male" for m, M, male, Male, オス and "Female" for f, F, female, *)
(* Female, メス in such a field; any other value makes the import raise,   *)
(* with a GenderFormatError when no earlier field raises first.            *)
(***************************************************************************)
C6_ImportedGender(infile, i, r) ==
    LET g == infile[i][2]
        stored == r.vertices[Len(r.vertices)][infile[i][1]]
    IN IF g \in {"m", "M", "male", "Male", "オス"}
       THEN r.err.kind = "none" => stored = "Male"
       ELSE IF g \in {"f", "F", "female", "Female", "メス"}
       THEN r.err.kind = "none" => stored = "Female"
       ELSE /\ r.err.kind # "none"
            /\ PrefixOK(infile, i) =>
                  r.err = GenderFormatError(PandaPath, g)

C6_AnimalGenderCanonical ==
    /\ \A v \in Range(vertices) : ~IsZooVertex(v) =>
          \A k \in DOMAIN v : IsGenderField(k) => v[k] \in Canonical
    /\ CanImport =>
          \A infile \in GenderFiles : \A r \in {Imported(infile)} :
             \A i \in 1..Len(infile) :
                IsGenderField(infile[i][1]) => C6_ImportedGender(infile, i, r)

C6_Witness ==
    /\ Len(vertices) = 2
    /\ ~IsZooVertex(vertices[1]) /\ ~IsZooVertex(vertices[2])
    /\ "gender" \in DOMAIN vertices[1] /\ vertices[1]["gender"] = "Female"
    /\ "gender" \in DOMAIN vertices[2] /\ vertices[2]["gender"] = "Male"

(***************************************************************************)
(* C4: a dataset validator that runs on a zoo list or an animal list with  *)
(* two entries of one _id ends the build with an IdError.                  *)
(***************************************************************************)
Animals == SelectSeq(vertices, LAMBDA v : ~IsZooVertex(v))

C4_DuplicateIdsRaiseIdError ==
    [][ (VerifyZoos /\ HasDupes(zoos)) \/ (VerifyPandas /\ HasDupes(Animals))
           => pc' = "error" /\ err'.kind = "IdError" ]_vars

(***************************************************************************)
(* C7: no vertex of the store, animal or zoo, holds a name field longer    *)
(* than 80 characters.                                                     *)
(***************************************************************************)
C7_NamesWithinLimit ==
    \A v \in Range(vertices) \cup Range(zoos) : \A k \in DOMAIN v :
       find(k, "name") # -1 => Len(v[k]) <= MaxNameLen

(***************************************************************************)
(* C8: no exported graph has a directed cycle of family edges.             *)
(***************************************************************************)
Parent(es, a, b) == Edge(a, b, "family") \in Range(es)

RECURSIVE Ancestor(_, _, _, _)
Ancestor(es, a, b, n) ==
    \/ Parent(es, a, b)
    \/ n > 1 /\ \E c \in PandaIdValues :
                   Parent(es, a, c) /\ Ancestor(es, c, b, n - 1)

C8_ExportedFamilyAcyclic ==
    pc = "done" =>
       \A a \in PandaIdValues :
          ~Ancestor(export.edges, a, a, Cardinality(PandaIdValues))

(***************************************************************************)
(* C9: no exported graph has a family edge whose child, both birth dates   *)
(* being known, was born before its parent.                                *)
(***************************************************************************)
Year(d) == CHOOSE y \in 1990..2030 : d = ToString(y) \o "/1/1"

C9_ExportedChildNotOlder ==
    pc = "done" =>
       \A e \in Range(FamilyOf(export.edges)) :
          \A p, c \in Range(export.vertices) :
             /\ p["_id"] = e._out /\ c["_id"] = e._in
             /\ "birthday" \in DOMAIN p /\ "birthday" \in DOMAIN c
             => Year(c["birthday"]) >= Year(p["birthday"])

(***************************************************************************)
(* C10: an import of an animal file that raises leaves the vertex list,    *)
(* the edge list, the zoo list and the file lists as they were.            *)
(***************************************************************************)
C10_FailedImportLeavesStore ==
    [][ /\ pc = "import_pandas" /\ pc' = "error"
        /\ err'.kind \in {"NameFormatError", "GenderFormatError", "IdError"}
        => UNCHANGED <<vertices, edges, zoos, panda_files, zoo_files>> ]_vars

====
